---- MODULE Spec2Model ----
(***************************************************************************)
(* Model of the two plugins of the repository:                             *)
(*   - forescout_iot  : ForescoutPluginHelper.api_helper / handle_error,   *)
(*                      ForescoutPlugin.pull (generator) and validate;     *)
(*   - Crowdstrike_cte: CrowdstrikePluginHelper.api_helper /               *)
(*                      get_auth_token, CrowdstrikePlugin.pull / validate. *)
(* The provider (HTTP server) and the host that drives the generator are   *)
(* the environment: every answer of the provider is a nondeterministic     *)
(* choice from a bounded set.                                              *)
(***************************************************************************)
EXTENDS Integers, Sequences, FiniteSets, TLC

VARIABLES
    \* ---- ForescoutPlugin.pull / ForescoutPluginHelper.api_helper ----
    fpc,              \* position of the pull generator
    page_number,      \* local page_number of pull
    retry,            \* loop variable of api_helper's for loop
    statuses,         \* outcome of every request of the current api_helper
                      \* call: the status code, 0 when no response came
    body_fmt,         \* kind of body of the last response received
    sleeps,           \* time.sleep durations of the current api_helper call
    now,              \* wall clock (milliseconds past TimeBase)
    current_time_ms,  \* local current_time_ms of pull
    request,          \* JSON payload of the last HTTP request sent
    ret,              \* what the last api_helper call returned
    results,          \* local results of pull (raw records of the page)
    batch,            \* the tuple handed to the host by the last yield
    page_requests,    \* number of api_helper calls made by pull
    yields,           \* number of tuples yielded by pull
    fs_log,           \* warning / error log entries written
    fs_error,         \* exception raised out of pull ("none" if none)
    \* ---- CrowdstrikePlugin.pull / CrowdstrikePluginHelper ----
    cpc,              \* position of pull
    token,            \* local token of pull
    ioc_ids,          \* local ioc_ids of pull
    batch_start,      \* loop variable i of the batch loop
    detail_calls,     \* the ids parameter of every entities call, in order
    indicators,       \* local indicators of pull
    raw_seen,         \* number of raw records iterated by the normalizer
    raw_unresolved,   \* of these: dict records with unknown type or empty value
    raw_failed,       \* of these: records whose normalization raised
    cs_http,          \* number of HTTP requests per endpoint
    cs_log,           \* error log entries written
    query_reply,      \* what the query endpoint answered (status, body)
    cs_status,        \* outcome of the last HTTP request of pull: the status
                      \* code, 0 when no response came, -1 before any request
    cs_result,        \* outcome of pull: returned list or exception raised
    \* ---- validate (both plugins) ----
    vpc,              \* position of validate
    vplugin,          \* which plugin's validate runs
    config,           \* the configuration passed to validate
    vresult,          \* ValidationResult returned (or the exception raised)
    v_http,           \* number of HTTP requests made by validate
    v_reply           \* what the token endpoint answered to validate

fsVars == <<fpc, page_number, retry, statuses, body_fmt, sleeps, now,
            current_time_ms, request, ret, results, batch, page_requests, yields, fs_log,
            fs_error>>
csVars == <<cpc, token, ioc_ids, batch_start, detail_calls, indicators,
            raw_seen, raw_unresolved, raw_failed, cs_http, cs_log, query_reply,
            cs_status, cs_result>>
valVars == <<vpc, vplugin, config, vresult, v_http, v_reply>>
vars == <<fsVars, csVars, valVars>>

(***************************************************************************)
(* Python values                                                           *)
(***************************************************************************)
None == "<None>"        \* Python None, where a string is expected
Absent == "<absent>"    \* a key that is not in the dict

\* a string that is there and has at least one character
NonEmptyStr(x) == x \notin {"<None>", "<absent>", ""}

\* bool(x) of a string-or-None value
Truthy(x) == x # None /\ x # Absent /\ x # ""

\* a JSON value expected to be a list: a list, null, or a missing key
JList(s) == [tag |-> "list", v |-> s]
JNull == [tag |-> "null", v |-> <<>>]
JAbsent == [tag |-> "absent", v |-> <<>>]

\* dict.get(key, []) on such a field: the default replaces only a missing key
GetList(field) == IF field.tag = "absent" THEN JList(<<>>) ELSE field

\* bool(x) of a list-or-None value
TruthyList(field) == field.tag = "list" /\ Len(field.v) > 0

\* dict.get(key) on a string field: a missing key gives None
GetStr(field) == IF field = Absent THEN None ELSE field

(***************************************************************************)
(* Bounds of the model                                                     *)
(***************************************************************************)
MaxPageLen == 2         \* raw records per page returned by the provider
MaxIds == 250           \* IOC ids returned by the query endpoint
MaxRes == 2             \* raw records per answer of the entities endpoint
MaxStrLen == 2          \* characters of a configuration string

(***************************************************************************)
(* forescout_constants.py                                                  *)
(***************************************************************************)
MAX_RETRIES == 3
RETRY_BACKOFF == 1
DEFAULT_LOOKBACK_MINS == 60
REM_ASSET_FIELDS == <<"ip_addresses", "mac_addresses", "rem_category",
                      "rem_vendor", "rem_os", "rem_function", "risk_score">>
\* the literal of the sanity check in pull
PageLimit == 1000
\* time.time() * 1000 at clock 0 (abstract; one lookback window past zero)
TimeBase == 3600000


(***************************************************************************)
(* Forescout: raw records of the rem-assets endpoint                       *)
(***************************************************************************)
\* A record of "results". shape "dict" is a JSON object; any other shape (a
\* string, a number, a list) has no .get.
FsRecord(shape, ip, mac, fn, risk, os, vendor, cat) ==
    [shape |-> shape, ip_addresses |-> ip, mac_addresses |-> mac,
     rem_function |-> fn, risk_score |-> risk, rem_os |-> os,
     rem_vendor |-> vendor, rem_category |-> cat]

FsRawItems ==
    { \* addresses only, every optional attribute present
      FsRecord("dict", JList(<<"10.0.0.1", "10.0.0.9">>), JAbsent,
               "camera", "7", "linux", "acme", "iot"),
      \* a blank first address and a MAC; risk_score null, rem_function blank
      FsRecord("dict", JList(<<"">>), JList(<<"aa:cc">>),
               "", None, Absent, "acme", Absent),
      \* no address and no MAC
      FsRecord("dict", JList(<<>>), JNull,
               "camera", Absent, "linux", Absent, "iot"),
      \* not a JSON object
      FsRecord("str", JAbsent, JAbsent,
               Absent, Absent, Absent, Absent, Absent) }

\* the pages the provider may answer with
SeqsUpTo(S, n) == UNION { [1..k -> S] : k \in 0..n }
FsPages == SeqsUpTo(FsRawItems, MaxPageLen)

(***************************************************************************)
(* Forescout: the normalizer of pull (main.py 119-153)                     *)
(***************************************************************************)
\* item.get(...) raises AttributeError on a record that is no dict
ItemRaises(item) == item.shape # "dict"

\* ip_list[0] if ip_list else None
FirstOrNone(field) ==
    IF TruthyList(GetList(field)) THEN GetList(field).v[1] ELSE None

\* (mutation of HasIdentity: the guard is dropped)
HasIdentityAlways(ip_address, mac_address) == TRUE
\* if ip_address or mac_address:
HasIdentity(ip_address, mac_address) == Truthy(ip_address) \/ Truthy(mac_address)

AssetTags(item) ==
    (IF Truthy(item.rem_function)
        THEN << <<"Function", item.rem_function>> >> ELSE <<>>)
    \o (IF item.risk_score # Absent
        THEN << <<"Risk Score", item.risk_score>> >> ELSE <<>>)

\* Asset(ip=..., mac_address=..., tags=..., use_asset=True) and the extended
\* attributes; an attribute that is not set stays None
AssetOf(item) ==
    [ip |-> FirstOrNone(item.ip_addresses),
     mac_address |-> FirstOrNone(item.mac_addresses),
     tags |-> AssetTags(item),
     use_asset |-> TRUE,
     os |-> IF Truthy(item.rem_os) THEN item.rem_os ELSE None,
     manufacturer |-> IF Truthy(item.rem_vendor) THEN item.rem_vendor ELSE None,
     category |-> IF Truthy(item.rem_category) THEN item.rem_category ELSE None]

EmitsAsset(item) ==
    HasIdentity(FirstOrNone(item.ip_addresses), FirstOrNone(item.mac_addresses))

\* the for loop over results, when no record raises
NormalizeAssets(rs) ==
    LET F[i \in 0..Len(rs)] ==
            IF i = 0 THEN <<>>
            ELSE IF EmitsAsset(rs[i]) THEN Append(F[i - 1], AssetOf(rs[i]))
            ELSE F[i - 1]
    IN F[Len(rs)]

\* the for loop has no try: the first record that raises ends pull
PageRaises(rs) == \E i \in 1..Len(rs) : ItemRaises(rs[i])

(***************************************************************************)
(* Forescout: answers of the provider                                      *)
(***************************************************************************)
NoBody == [fmt |-> "none", results |-> JAbsent]
FsBodies ==
    { [fmt |-> "dict", results |-> JList(p)] : p \in FsPages }
    \cup { [fmt |-> "dict", results |-> JAbsent],
           [fmt |-> "dict", results |-> JNull],
           [fmt |-> "list", results |-> JAbsent],
           [fmt |-> "nonjson", results |-> JAbsent] }
FsResponses ==
    { [kind |-> "transport", status |-> 0, body |-> NoBody] }
    \cup { [kind |-> "http", status |-> s, body |-> NoBody] : s \in {429, 500} }
    \cup { [kind |-> "http", status |-> s, body |-> b] :
             s \in {200, 201}, b \in FsBodies }

(***************************************************************************)
(* ForescoutPluginHelper.api_helper / handle_error                         *)
(***************************************************************************)
\* (mutation of RetriesExhausted: the last iteration is missed by one)
RetriesExhaustedLate(r) == r = MAX_RETRIES
\* if retry == MAX_RETRIES - 1:
RetriesExhausted(r) == r = MAX_RETRIES - 1
\* for retry in range(MAX_RETRIES): is there a next iteration after r
HasNextAttempt(r) == r + 1 < MAX_RETRIES
\* time.sleep(RETRY_BACKOFF * (2 ** retry))
Backoff(r) == RETRY_BACKOFF * (2 ^ r)
\* response.status_code in [200, 201]
IsSuccess(status) == status \in {200, 201}
\* (mutation of HandleErrorRaises: handle_error lets every status through)
HandleErrorNever(status) == FALSE
\* handle_error: raises HTTPError unless the status is 200 or 201
HandleErrorRaises(status) == status \notin {200, 201}
\* (mutation of SuccessValue: a body that is not JSON gives None)
SuccessValueNone(body) ==
    IF body.fmt = "dict" THEN "dict"
    ELSE IF body.fmt = "nonjson" THEN "None"
    ELSE "json"
\* try: return response.json()  except ValueError: return response
SuccessValue(body) ==
    IF body.fmt = "dict" THEN "dict"
    ELSE IF body.fmt = "nonjson" THEN "response"
    ELSE "json"

\* What one iteration of the for loop does with the answer resp:
\*   "raise"    an exception leaves api_helper (logged by its except block),
\*   "continue" sleep and go to the next iteration,
\*   "return"   api_helper returns value (falling off the loop returns None).
ApiHelperStep(resp, r) ==
    IF resp.kind = "transport"
    THEN [do |-> "raise", exc |-> "ConnectionError", sleep |-> 0,
          value |-> "none", log |-> {"ERROR api_helper: request exception"}]
    ELSE IF resp.status = 429
    THEN IF RetriesExhausted(r)
         THEN [do |-> "raise", exc |-> "HTTPError 429", sleep |-> 0,
               value |-> "none",
               log |-> {"ERROR api_helper: max retries reached for 429",
                        "ERROR api_helper: request exception"}]
         ELSE IF HasNextAttempt(r)
         THEN [do |-> "continue", exc |-> "none", sleep |-> Backoff(r),
               value |-> "none", log |-> {}]
         ELSE [do |-> "return", exc |-> "none", sleep |-> Backoff(r),
               value |-> "None", log |-> {}]
    ELSE IF HandleErrorRaises(resp.status)
    THEN [do |-> "raise", exc |-> "HTTPError", sleep |-> 0, value |-> "none",
          log |-> {"ERROR handle_error: status code",
                   "ERROR api_helper: request exception"}]
    ELSE IF IsSuccess(resp.status)
    THEN [do |-> "return", exc |-> "none", sleep |-> 0,
          value |-> SuccessValue(resp.body), log |-> {}]
    ELSE [do |-> "return", exc |-> "none", sleep |-> 0, value |-> "response",
          log |-> {}]

(***************************************************************************)
(* ForescoutPlugin.pull                                                    *)
(***************************************************************************)
\* payload of the page request (main.py 90-95)
LookbackMs == DEFAULT_LOOKBACK_MINS * 60 * 1000
\* (mutation of Payload: the window is taken from the clock at each request)
PayloadMovingWindow(t, p) ==
    [from_utc_millis |-> TimeBase + now - LookbackMs,
     to_utc_millis |-> TimeBase + now,
     selected_fields |-> REM_ASSET_FIELDS, page_number |-> p]
Payload(t, p) ==
    [from_utc_millis |-> t - LookbackMs, to_utc_millis |-> t,
     selected_fields |-> REM_ASSET_FIELDS, page_number |-> p]
NoRequest ==
    [from_utc_millis |-> 0, to_utc_millis |-> 0, selected_fields |-> <<>>,
     page_number |-> -1]

\* (mutation of YieldTuple: the tuple of the last page allowed is flagged as
\* the last page)
YieldTupleMarksLast(assets, p) ==
    [assets |-> assets, is_first_page |-> (p = 0),
     is_last_page |-> (p = PageLimit), count |-> Len(assets), total_count |-> 0]
\* (mutation of YieldTuple: every tuple is flagged as the first page)
YieldTupleAlwaysFirst(assets, p) ==
    [assets |-> assets, is_first_page |-> TRUE, is_last_page |-> FALSE,
     count |-> Len(assets), total_count |-> 0]
\* the tuple of the yield statement (main.py 163)
YieldTuple(assets, p) ==
    [assets |-> assets, is_first_page |-> (p = 0), is_last_page |-> FALSE,
     count |-> Len(assets), total_count |-> 0]
NoBatch ==
    [assets |-> <<>>, is_first_page |-> FALSE, is_last_page |-> FALSE,
     count |-> -1, total_count |-> -1]

\* results of the page, from what api_helper returned (main.py 109-113)
PageResults(value, body) ==
    IF value = "dict" THEN GetList(body.results) ELSE JList(<<>>)

\* (mutation of EndOfData: the loop ends when the page gave no asset)
EndOfDataNoAssets(res) == NormalizeAssets(res.v) = <<>>
\* (mutation of EndOfData: an empty page does not end the loop)
EndOfDataNever(res) == FALSE
\* if not results: break
EndOfData(res) == ~TruthyList(res)

\* if page_number > 1000: break   (after page_number += 1)
PageLimitReached(p) == p > PageLimit

InitFS ==
    /\ fpc = "start"
    /\ page_number = 0
    /\ retry = 0
    /\ statuses = <<>>
    /\ body_fmt = "none"
    /\ sleeps = <<>>
    /\ now = 0
    /\ current_time_ms = 0
    /\ request = NoRequest
    /\ ret = "none"
    /\ results = <<>>
    /\ batch = NoBatch
    /\ page_requests = 0
    /\ yields = 0
    /\ fs_log = {}
    /\ fs_error = "none"

\* The host starts the generator: pull runs up to its first HTTP request
\* (main.py 71-87).
FsStart ==
    /\ fpc = "start"
    /\ fpc' = "request"
    /\ current_time_ms' = TimeBase + now
    /\ page_number' = 0
    /\ UNCHANGED <<retry, statuses, body_fmt, sleeps, now, request, ret,
                   results, batch, page_requests, yields, fs_log, fs_error>>

\* One HTTP request of api_helper and everything that follows it up to the
\* next request, the next yield, or the end of pull.
FsAttempt(resp) ==
    LET step == ApiHelperStep(resp, retry)
        res == PageResults(step.value, resp.body)
    IN
    /\ fpc = "request"
    /\ request' = Payload(current_time_ms, page_number)
    /\ page_requests' = IF retry = 0 THEN page_requests + 1 ELSE page_requests
    /\ statuses' = Append(statuses, resp.status)
    /\ body_fmt' = resp.body.fmt
    /\ sleeps' = IF step.sleep > 0 THEN Append(sleeps, step.sleep) ELSE sleeps
    /\ UNCHANGED <<page_number, now, current_time_ms>>
    /\ CASE step.do = "continue" ->
              /\ retry' = retry + 1
              /\ UNCHANGED <<fpc, ret, results, batch, yields, fs_log, fs_error>>
         [] step.do = "raise" ->
              /\ fpc' = "raised"
              /\ fs_error' = step.exc
              /\ ret' = "raised"
              /\ fs_log' = fs_log \cup step.log
                                  \cup {"ERROR pull: API error fetching assets"}
              /\ UNCHANGED <<retry, results, batch, yields>>
         [] step.do = "return" ->
              /\ ret' = step.value
              /\ results' = res.v
              /\ UNCHANGED retry
              /\ IF EndOfData(res)
                 THEN /\ fpc' = "done"
                      /\ fs_log' = fs_log
                            \cup (IF step.value # "dict"
                                  THEN {"ERROR pull: unexpected API response format"}
                                  ELSE {})
                            \cup {"INFO pull: no more results"}
                      /\ UNCHANGED <<batch, yields, fs_error>>
                 ELSE IF PageRaises(res.v)
                 THEN /\ fpc' = "raised"
                      /\ fs_error' = "AttributeError"
                      /\ fs_log' = fs_log \cup {"ERROR pull: error fetching assets"}
                      /\ UNCHANGED <<batch, yields>>
                 ELSE /\ fpc' = "yielded"
                      /\ batch' = YieldTuple(NormalizeAssets(res.v), page_number)
                      /\ yields' = yields + 1
                      /\ UNCHANGED <<fs_log, fs_error>>

\* The host asks for the next tuple: pull resumes after the yield, advances
\* the page and either ends at the page limit or goes on to the next request
\* (main.py 165-170, 89-98). Time has passed while the host held the batch.
FsNext ==
    /\ fpc = "yielded"
    /\ page_number' = page_number + 1
    /\ now' = now + 1
    /\ batch' = NoBatch
    /\ results' = <<>>
    /\ ret' = "none"
    /\ retry' = 0
    /\ statuses' = <<>>
    /\ body_fmt' = "none"
    /\ sleeps' = <<>>
    /\ IF PageLimitReached(page_number')
       THEN /\ fpc' = "done"
            /\ fs_log' = fs_log \cup {"WARNING pull: reached maximum page limit"}
       ELSE /\ fpc' = "request"
            /\ UNCHANGED fs_log
    /\ UNCHANGED <<current_time_ms, request, page_requests, yields, fs_error>>

(***************************************************************************)
(* Crowdstrike: raw records of the entities endpoint                       *)
(***************************************************************************)
CsRecord(shape, value, type, description, created_on, modified_on) ==
    [shape |-> shape, value |-> value, type |-> type,
     description |-> description, created_on |-> created_on,
     modified_on |-> modified_on]

CsRawItems ==
    { CsRecord("dict", "abc123", "sha256", "bad file",
               "2024-01-01T00:00:00Z", "2024-02-01T00:00:00Z"),
      CsRecord("dict", "10.1.1.1", "ipv4", Absent, Absent, Absent),
      \* a type outside the lookup
      CsRecord("dict", "evil.exe", "filename", Absent, Absent, Absent),
      \* no usable value
      CsRecord("dict", "", "md5", Absent, Absent, Absent),
      \* not a JSON object
      CsRecord("str", Absent, Absent, Absent, Absent, Absent) }

CsPages == SeqsUpTo(CsRawItems, MaxRes)

\* the ids the query endpoint answers with: n distinct ids, not in index
\* order, for the lengths around the batch boundaries
IdCounts == {0, 1, 99, 100, 101, 199, 200, 201, MaxIds}
IocIdList(n) == [k \in 1..n |-> n - k + 1]

(***************************************************************************)
(* Crowdstrike: the normalizer of pull (main.py 82-120)                    *)
(***************************************************************************)
\* the if / elif chain on itype; None when no branch matches
IndicatorTypeOf(itype) ==
    IF itype = "sha256" THEN "SHA256"
    ELSE IF itype = "md5" THEN "MD5"
    ELSE IF itype = "domain" THEN "URL"
    ELSE IF itype = "ipv4" THEN "URL"
    ELSE IF itype = "ipv6" THEN "URL"
    ELSE None

\* item.get raises AttributeError on a record that is no dict; the except
\* clause of the loop body catches it
CsItemRaises(item) == item.shape # "dict"

\* (mutation of EmitsIndicator: the test of value is dropped)
EmitsIndicatorNoValueTest(item) ==
    IndicatorTypeOf(GetStr(item.type)) # None
\* if indicator_type and value:
EmitsIndicator(item) ==
    IndicatorTypeOf(GetStr(item.type)) # None /\ Truthy(GetStr(item.value))

IndicatorOf(item) ==
    [value |-> GetStr(item.value),
     type |-> IndicatorTypeOf(GetStr(item.type)),
     comments |-> IF item.description = Absent THEN "Crowdstrike IOC"
                  ELSE item.description,
     firstSeen |-> GetStr(item.created_on),
     lastSeen |-> GetStr(item.modified_on)]

\* the for loop over resources: a record that raises is logged and skipped
NormalizeIndicators(rs) ==
    LET F[i \in 0..Len(rs)] ==
            IF i = 0 THEN <<>>
            ELSE IF ~CsItemRaises(rs[i]) /\ EmitsIndicator(rs[i])
                 THEN Append(F[i - 1], IndicatorOf(rs[i]))
            ELSE F[i - 1]
    IN F[Len(rs)]

(***************************************************************************)
(* Crowdstrike: answers of the provider                                    *)
(***************************************************************************)
\* token endpoint
CsTokenResponses ==
    { [kind |-> "transport", status |-> 0, fmt |-> "none", access_token |-> Absent] }
    \cup { [kind |-> "http", status |-> s, fmt |-> "none", access_token |-> Absent] :
             s \in {401, 429} }
    \cup { [kind |-> "http", status |-> s, fmt |-> "dict", access_token |-> t] :
             s \in {200, 201}, t \in {"tok", Absent} }
    \cup { [kind |-> "http", status |-> 200, fmt |-> "nonjson", access_token |-> Absent] }

\* query endpoint: "resources" holds n ids, or is null or missing
CsQueryResponses ==
    { [kind |-> "transport", status |-> 0, fmt |-> "none", resources |-> JAbsent] }
    \cup { [kind |-> "http", status |-> s, fmt |-> "none", resources |-> JAbsent] :
             s \in {429, 500} }
    \cup { [kind |-> "http", status |-> 200, fmt |-> "dict",
            resources |-> JList(IocIdList(n))] : n \in IdCounts }
    \cup { [kind |-> "http", status |-> 200, fmt |-> f, resources |-> r] :
             f \in {"dict"}, r \in {JAbsent, JNull} }
    \cup { [kind |-> "http", status |-> 200, fmt |-> f, resources |-> JAbsent] :
             f \in {"list", "nonjson"} }

\* entities endpoint
CsDetailResponses ==
    { [kind |-> "transport", status |-> 0, fmt |-> "none", resources |-> JAbsent] }
    \cup { [kind |-> "http", status |-> s, fmt |-> "none", resources |-> JAbsent] :
             s \in {429, 500} }
    \cup { [kind |-> "http", status |-> 200, fmt |-> "dict", resources |-> JList(p)] :
             p \in CsPages }
    \cup { [kind |-> "http", status |-> 201, fmt |-> "dict", resources |-> JList(<<>>)] }
    \cup { [kind |-> "http", status |-> 200, fmt |-> "dict", resources |-> r] :
             r \in {JAbsent, JNull} }
    \cup { [kind |-> "http", status |-> 200, fmt |-> f, resources |-> JAbsent] :
             f \in {"list", "nonjson"} }

(***************************************************************************)
(* CrowdstrikePluginHelper                                                 *)
(***************************************************************************)
\* api_helper: one request, no loop. "return" hands back response.json();
\* everything else leaves as a CrowdstrikePluginException.
CsApiHelper(resp) ==
    IF resp.kind = "transport"
    THEN [do |-> "raise", exc |-> "Request Error",
          log |-> {"ERROR api_helper: request exception"}]
    ELSE IF ~IsSuccess(resp.status)
    THEN [do |-> "raise", exc |-> "Unexpected Error",
          log |-> {"ERROR api_helper: HTTP request failed",
                   "ERROR api_helper: unexpected error"}]
    ELSE IF resp.fmt = "nonjson"
    THEN [do |-> "raise", exc |-> "Unexpected Error",
          log |-> {"ERROR api_helper: unexpected error"}]
    ELSE [do |-> "return", exc |-> "none", log |-> {}]

\* get_auth_token: one POST; returns response.json().get("access_token"),
\* which is None when the body has no such field
GetAuthToken(resp) ==
    IF resp.kind = "transport"
    THEN [do |-> "raise", exc |-> "Auth Exception", token |-> None]
    ELSE IF ~IsSuccess(resp.status)
    THEN [do |-> "raise", exc |-> "Auth Exception", token |-> None]
    ELSE IF resp.fmt = "nonjson"
    THEN [do |-> "raise", exc |-> "Auth Exception", token |-> None]
    ELSE [do |-> "return", exc |-> "none", token |-> GetStr(resp.access_token)]

(***************************************************************************)
(* CrowdstrikePlugin.pull                                                  *)
(***************************************************************************)
batch_size == 100

Min(a, b) == IF a < b THEN a ELSE b

\* (mutation of BatchIds: the slice runs one element too far)
BatchIdsOverlap(ids, i) == SubSeq(ids, i + 1, Min(i + batch_size + 1, Len(ids)))
\* ioc_ids[i:i + batch_size]
BatchIds(ids, i) == SubSeq(ids, i + 1, Min(i + batch_size, Len(ids)))

\* (mutation of HasNextBatch: the loop is left after its first iteration)
HasNextBatchNever(ids, i) == FALSE
\* for i in range(0, len(ioc_ids), batch_size): is there an iteration after i
HasNextBatch(ids, i) == i + batch_size < Len(ids)

\* (mutation of NoIds: the early return is never taken)
NoIdsNever(ids) == FALSE
\* if not ioc_ids: return indicators
NoIds(ids) == ids = <<>>

NoReply == [kind |-> "none", status |-> 0, fmt |-> "none", tag |-> "absent",
            n |-> 0]
NoOutcome == [kind |-> "none", value |-> <<>>, exc |-> "none"]
Returned(list) == [kind |-> "returned", value |-> list, exc |-> "none"]
\* (mutation of Raised: the except block hands back what was collected)
RaisedKeepsList(exc) == [kind |-> "returned", value |-> indicators, exc |-> exc]
\* except Exception: log, raise
Raised(exc) == [kind |-> "raised", value |-> <<>>, exc |-> exc]

\* classification of the raw records by the data model (for the counters)
KnownTypes == {"sha256", "md5", "domain", "ipv4", "ipv6"}
Unresolved(item) ==
    item.shape = "dict" /\ (item.type \notin KnownTypes \/ ~NonEmptyStr(item.value))
CountOf(rs, P(_)) == Cardinality({i \in 1..Len(rs) : P(rs[i])})

InitCS ==
    /\ cpc = "start"
    /\ token = None
    /\ ioc_ids = <<>>
    /\ batch_start = 0
    /\ detail_calls = <<>>
    /\ indicators = <<>>
    /\ raw_seen = 0
    /\ raw_unresolved = 0
    /\ raw_failed = 0
    /\ cs_http = [token |-> 0, query |-> 0, entities |-> 0]
    /\ cs_log = {}
    /\ query_reply = NoReply
    /\ cs_status = -1
    /\ cs_result = NoOutcome

CsFail(exc, log) ==
    /\ cpc' = "raised"
    /\ cs_result' = Raised(exc)
    /\ cs_log' = cs_log \cup log \cup {"ERROR pull: error pulling indicators"}

\* pull up to and including the token request (main.py 43-50)
CsAuth(resp) ==
    LET auth == GetAuthToken(resp) IN
    /\ cpc = "start"
    /\ cs_http' = [cs_http EXCEPT !.token = @ + 1]
    /\ cs_status' = resp.status
    /\ IF auth.do = "raise"
       THEN /\ CsFail(auth.exc, {})
            /\ UNCHANGED token
       ELSE /\ cpc' = "query"
            /\ token' = auth.token
            /\ UNCHANGED <<cs_result, cs_log>>
    /\ UNCHANGED <<ioc_ids, batch_start, detail_calls, indicators, raw_seen,
                   raw_unresolved, raw_failed, query_reply>>

\* the query request and what follows it up to the first entities request or
\* the return (main.py 52-66)
CsQuery(resp) ==
    LET call == CsApiHelper(resp)
        ids == GetList(resp.resources)
    IN
    /\ cpc = "query"
    /\ cs_http' = [cs_http EXCEPT !.query = @ + 1]
    /\ cs_status' = resp.status
    /\ query_reply' = [kind |-> resp.kind, status |-> resp.status,
                       fmt |-> resp.fmt, tag |-> resp.resources.tag,
                       n |-> Len(resp.resources.v)]
    /\ UNCHANGED <<token, batch_start, detail_calls, indicators, raw_seen,
                   raw_unresolved, raw_failed>>
    /\ IF call.do = "raise"
       THEN CsFail(call.exc, call.log) /\ UNCHANGED ioc_ids
       ELSE IF resp.fmt # "dict"
       THEN CsFail("AttributeError", {}) /\ UNCHANGED ioc_ids
       ELSE IF ids.tag = "null"
       THEN CsFail("TypeError", {}) /\ UNCHANGED ioc_ids
       ELSE /\ ioc_ids' = ids.v
            /\ UNCHANGED cs_log
            /\ IF NoIds(ids.v)
               THEN cpc' = "returned" /\ cs_result' = Returned(indicators)
               ELSE cpc' = "detail" /\ UNCHANGED cs_result

\* one entities request, the normalization of its records, and the step of
\* the batch loop (main.py 68-122, 127)
CsDetail(resp) ==
    LET call == CsApiHelper(resp)
        res == GetList(resp.resources)
        ids == BatchIds(ioc_ids, batch_start)
        found == indicators \o NormalizeIndicators(res.v)
    IN
    /\ cpc = "detail"
    /\ cs_http' = [cs_http EXCEPT !.entities = @ + 1]
    /\ cs_status' = resp.status
    /\ detail_calls' = Append(detail_calls, ids)
    /\ UNCHANGED <<token, ioc_ids, query_reply>>
    /\ IF call.do = "raise"
       THEN /\ CsFail(call.exc, call.log)
            /\ UNCHANGED <<batch_start, indicators, raw_seen, raw_unresolved,
                           raw_failed>>
       ELSE IF resp.fmt # "dict"
       THEN /\ CsFail("AttributeError", {})
            /\ UNCHANGED <<batch_start, indicators, raw_seen, raw_unresolved,
                           raw_failed>>
       ELSE IF res.tag = "null"
       THEN /\ CsFail("TypeError", {})
            /\ UNCHANGED <<batch_start, indicators, raw_seen, raw_unresolved,
                           raw_failed>>
       ELSE /\ indicators' = found
            /\ raw_seen' = raw_seen + Len(res.v)
            /\ raw_unresolved' = raw_unresolved + CountOf(res.v, Unresolved)
            /\ raw_failed' = raw_failed + CountOf(res.v, CsItemRaises)
            /\ cs_log' = cs_log
                  \cup (IF CountOf(res.v, CsItemRaises) > 0
                        THEN {"ERROR pull: error parsing indicator"} ELSE {})
            /\ IF HasNextBatch(ioc_ids, batch_start)
               THEN /\ batch_start' = batch_start + batch_size
                    /\ UNCHANGED <<cpc, cs_result>>
               ELSE /\ cpc' = "returned"
                    /\ cs_result' = Returned(found)
                    /\ UNCHANGED batch_start

(***************************************************************************)
(* Configuration values and the string methods validate uses               *)
(***************************************************************************)
\* A string is a sequence of characters; " " stands for whitespace, "/" for
\* the slash and "a" for any other character.
CfgStr(s) == [tag |-> "str", s |-> s]
CfgNull == [tag |-> "null", s |-> <<>>]
CfgAbsent == [tag |-> "absent", s |-> <<>>]

RECURSIVE LStripCh(_, _)
LStripCh(s, c) ==
    IF s # <<>> /\ Head(s) = c THEN LStripCh(Tail(s), c) ELSE s
RECURSIVE RStripCh(_, _)
RStripCh(s, c) ==
    IF s # <<>> /\ s[Len(s)] = c
    THEN RStripCh(SubSeq(s, 1, Len(s) - 1), c) ELSE s
\* str.strip()
Strip(s) == RStripCh(LStripCh(s, " "), " ")
\* str.rstrip("/")
RStripSlash(s) == RStripCh(s, "/")

\* configuration.get(key, ""): the default replaces only a missing key
CfgGetOrEmpty(field) == IF field.tag = "absent" THEN CfgStr(<<>>) ELSE field
\* configuration.get(key): a missing key gives None
CfgGet(field) == IF field.tag = "absent" THEN CfgNull ELSE field
\* bool(x) of a str-or-None value
CfgTruthy(field) == field.tag = "str" /\ field.s # <<>>

UrlStrings == SeqsUpTo({" ", "/", "a"}, MaxStrLen)
KeyStrings == SeqsUpTo({" ", "a"}, MaxStrLen)
UrlValues == {CfgAbsent, CfgNull} \cup {CfgStr(s) : s \in UrlStrings}
KeyValues == {CfgAbsent, CfgNull} \cup {CfgStr(s) : s \in KeyStrings}

\* the configurations validate is called with
CsConfigs ==
    { [base_url |-> u, client_id |-> i, client_secret |-> k, api_token |-> CfgAbsent] :
        u \in UrlValues, i \in KeyValues, k \in KeyValues }
FsConfigs ==
    { [base_url |-> u, client_id |-> CfgAbsent, client_secret |-> CfgAbsent,
       api_token |-> t] : u \in UrlValues, t \in KeyValues }

NoConfig == [base_url |-> CfgAbsent, client_id |-> CfgAbsent,
             client_secret |-> CfgAbsent, api_token |-> CfgAbsent]
NoResult == [kind |-> "none", success |-> FALSE, message |-> ""]
NoProbe == [kind |-> "none", status |-> 0, fmt |-> "none", access_token |-> Absent]
ValReturn(ok, msg) == [kind |-> "returned", success |-> ok, message |-> msg]
ValRaise(exc) == [kind |-> "raised", success |-> FALSE, message |-> exc]

(***************************************************************************)
(* CrowdstrikePlugin.validate (main.py 138-156)                            *)
(***************************************************************************)
\* if not base_url or not client_id or not client_secret:
\* (base_url stripped and without trailing slashes; the other two as given)
CsMissingRequired(cfg) ==
    \/ RStripSlash(Strip(CfgGetOrEmpty(cfg.base_url).s)) = <<>>
    \/ ~CfgTruthy(CfgGet(cfg.client_id))
    \/ ~CfgTruthy(CfgGet(cfg.client_secret))

\* validate as a whole; resp is the answer of the token endpoint if the
\* probe is reached
CsValidateResult(cfg, resp) ==
    IF CfgGetOrEmpty(cfg.base_url).tag = "null"
    THEN [result |-> ValReturn(FALSE, "'NoneType' object has no attribute 'strip'"),
          http |-> 0]
    ELSE IF CsMissingRequired(cfg)
    THEN [result |-> ValReturn(FALSE, "Missing required fields."), http |-> 0]
    ELSE IF GetAuthToken(resp).do = "raise"
    THEN [result |-> ValReturn(FALSE, GetAuthToken(resp).exc),
          http |-> 1]
    ELSE IF Truthy(GetAuthToken(resp).token)
    THEN [result |-> ValReturn(TRUE, "Validation Successful."), http |-> 1]
    ELSE [result |-> ValReturn(FALSE, "Validation Failed."), http |-> 1]

CsValidate(resp) ==
    /\ vpc = "start"
    /\ vplugin = "crowdstrike"
    /\ vpc' = "done"
    /\ vresult' = CsValidateResult(config, resp).result
    /\ v_http' = v_http + CsValidateResult(config, resp).http
    /\ v_reply' = IF CsValidateResult(config, resp).http = 1 THEN resp ELSE NoProbe
    /\ UNCHANGED <<vplugin, config>>

(***************************************************************************)
(* ForescoutPlugin.validate (main.py 185-196)                              *)
(***************************************************************************)
\* validate as a whole: no try, no request
FsValidateResult(cfg) ==
    IF CfgGetOrEmpty(cfg.base_url).tag = "null"
       \/ CfgGetOrEmpty(cfg.api_token).tag = "null"
    THEN ValRaise("AttributeError")
    ELSE IF Strip(CfgGetOrEmpty(cfg.base_url).s) = <<>>
    THEN ValReturn(FALSE, "Base URL is required.")
    ELSE IF Strip(CfgGetOrEmpty(cfg.api_token).s) = <<>>
    THEN ValReturn(FALSE, "API Token is required.")
    ELSE ValReturn(TRUE, "Validation successful.")

FsValidate ==
    /\ vpc = "start"
    /\ vplugin = "forescout"
    /\ vpc' = "done"
    /\ vresult' = FsValidateResult(config)
    /\ UNCHANGED <<vplugin, config, v_http, v_reply>>

InitVal ==
    /\ vpc = "start"
    /\ \/ vplugin = "crowdstrike" /\ config \in CsConfigs
       \/ vplugin = "forescout" /\ config \in FsConfigs
    /\ vresult = NoResult
    /\ v_http = 0
    /\ v_reply = NoProbe

(***************************************************************************)
(* Idle values of the parts a specification does not exercise              *)
(***************************************************************************)
IdleCS ==
    /\ cpc = "idle"
    /\ token = None
    /\ ioc_ids = <<>>
    /\ batch_start = 0
    /\ detail_calls = <<>>
    /\ indicators = <<>>
    /\ raw_seen = 0
    /\ raw_unresolved = 0
    /\ raw_failed = 0
    /\ cs_http = [token |-> 0, query |-> 0, entities |-> 0]
    /\ cs_log = {}
    /\ query_reply = NoReply
    /\ cs_status = -1
    /\ cs_result = NoOutcome

IdleVal ==
    /\ vpc = "idle"
    /\ vplugin = "none"
    /\ config = NoConfig
    /\ vresult = NoResult
    /\ v_http = 0
    /\ v_reply = NoProbe

IdleFS ==
    /\ InitFS
    /\ fpc = "start"

\* the Forescout plugin when no pull of it is run at all
ParkedFS ==
    /\ fpc = "idle"
    /\ page_number = 0
    /\ retry = 0
    /\ statuses = <<>>
    /\ body_fmt = "none"
    /\ sleeps = <<>>
    /\ now = 0
    /\ current_time_ms = 0
    /\ request = NoRequest
    /\ ret = "none"
    /\ results = <<>>
    /\ batch = NoBatch
    /\ page_requests = 0
    /\ yields = 0
    /\ fs_log = {}
    /\ fs_error = "none"

(***************************************************************************)
(* Specification of the Forescout pull                                     *)
(***************************************************************************)
Init == InitFS /\ IdleCS /\ IdleVal

Next ==
    \/ FsStart /\ UNCHANGED <<csVars, valVars>>
    \/ (\E resp \in FsResponses : FsAttempt(resp)) /\ UNCHANGED <<csVars, valVars>>
    \/ FsNext /\ UNCHANGED <<csVars, valVars>>

Spec == Init /\ [][Next]_vars

(***************************************************************************)
(* Properties of the Forescout pull                                        *)
(***************************************************************************)
All429(st) == \A i \in 1..Len(st) : st[i] = 429
ReturnedValue == ret \in {"dict", "json", "response", "None"}

\* C1 (as claimed): when the provider has answered 429 to the first three
\* attempts of one call, api_helper has not failed: a further attempt is
\* still to be issued, whose 200 answer would be returned.
C1_AttemptAfterThree429 ==
    (Len(statuses) = 3 /\ All429(statuses))
        => (fpc = "request" /\ fs_error = "none")

\* C2: a call answered only with 429 makes at most MAX_RETRIES requests, has
\* returned no value (no body, no response object, no None) at any point, and
\* after the MAX_RETRIES-th 429 has ended by raising the 429 HTTPError.
C2_Exhausted429Raises ==
    /\ Len(statuses) <= MAX_RETRIES
    /\ (Len(statuses) > 0 /\ All429(statuses)) => ~ReturnedValue
    /\ (Len(statuses) = MAX_RETRIES /\ All429(statuses))
          => (fpc = "raised" /\ fs_error = "HTTPError 429" /\ ret = "raised")

C2_Witness ==
    /\ statuses = <<429, 429, 429>>
    /\ sleeps = <<1, 2>>
    /\ fpc = "raised"
    /\ fs_error = "HTTPError 429"

\* C3: once a page request has returned zero raw results, pull has ended
\* normally, no batch was yielded for that page (one batch per earlier page),
\* and no further request is issued from then on.
EmptyPageReturned == ret = "dict" /\ results = <<>>
C3_EmptyPageEndsPull ==
    /\ [](EmptyPageReturned =>
            /\ fpc = "done"
            /\ fs_error = "none"
            /\ batch = NoBatch
            /\ yields = page_number
            /\ page_requests = page_number + 1)
    /\ [][EmptyPageReturned =>
            UNCHANGED <<page_requests, request, statuses, yields, fpc>>]_vars

C3_Witness ==
    /\ EmptyPageReturned
    /\ fpc = "done"
    /\ page_number = 2
    /\ yields = 2
    /\ page_requests = 3

\* C4 (as claimed): one pull issues at most 1000 page requests, with page
\* numbers 0..999.
C4_AtMost1000PageRequests ==
    /\ page_requests <= 1000
    /\ request.page_number <= 999

\* C8: every asset of a yielded batch has a non-empty ip or mac address (the
\* code sets no hostname), and a record whose ip_addresses and mac_addresses
\* are both empty, null or absent produced no asset.
NoAddress(item) ==
    /\ item.ip_addresses.tag # "list" \/ item.ip_addresses.v = <<>>
    /\ item.mac_addresses.tag # "list" \/ item.mac_addresses.v = <<>>
C8_AssetHasIdentity ==
    fpc = "yielded" =>
        /\ \A i \in 1..Len(batch.assets) :
              NonEmptyStr(batch.assets[i].ip) \/ NonEmptyStr(batch.assets[i].mac_address)
        /\ Len(batch.assets)
              <= Cardinality({i \in 1..Len(results) : ~NoAddress(results[i])})

C8_Witness ==
    /\ fpc = "yielded"
    /\ Len(results) = 2
    /\ NoAddress(results[1])
    /\ ~NoAddress(results[2])
    /\ Len(batch.assets) = 1
    /\ batch.assets[1].ip = ""
    /\ batch.assets[1].mac_address = "aa:cc"

\* C9 (as claimed): a record whose normalization raises is skipped: the other
\* records of the page are emitted and pull does not raise because of it.
C9_BadRecordIsSkipped ==
    (\E i \in 1..Len(results) : ItemRaises(results[i]))
        => /\ fs_error = "none"
           /\ fpc = "yielded"
           /\ Len(batch.assets)
                 = Cardinality({i \in 1..Len(results) :
                                  ~ItemRaises(results[i]) /\ EmitsAsset(results[i])})

(***************************************************************************)
(* Specification of the Crowdstrike pull                                   *)
(***************************************************************************)
InitPullCS == IdleFS /\ InitCS /\ IdleVal

NextCS ==
    \/ (\E resp \in CsTokenResponses : CsAuth(resp)) /\ UNCHANGED <<fsVars, valVars>>
    \/ (\E resp \in CsQueryResponses : CsQuery(resp)) /\ UNCHANGED <<fsVars, valVars>>
    \/ (\E resp \in CsDetailResponses : CsDetail(resp)) /\ UNCHANGED <<fsVars, valVars>>

SpecCS == InitPullCS /\ [][NextCS]_vars

(***************************************************************************)
(* Properties of the Crowdstrike pull                                      *)
(***************************************************************************)
\* C5: the k-th entities call carries the k-th consecutive slice of at most
\* 100 ids of the id list, in the list's order, never an empty slice; when
\* pull has returned for a list of n > 0 ids, ceil(n / 100) calls were made
\* and the slices, one after the other, are the id list.
SliceLen(n, k) == IF 100 * k <= n THEN 100 ELSE n - 100 * (k - 1)
SumLen(calls) ==
    LET F[k \in 0..Len(calls)] ==
            IF k = 0 THEN 0 ELSE F[k - 1] + Len(calls[k])
    IN F[Len(calls)]
C5_IdBatches ==
    LET n == Len(ioc_ids) IN
    /\ \A k \in 1..Len(detail_calls) :
          /\ Len(detail_calls[k]) = SliceLen(n, k)
          /\ Len(detail_calls[k]) \in 1..100
          /\ detail_calls[k]
                = SubSeq(ioc_ids, 100 * (k - 1) + 1,
                         100 * (k - 1) + Len(detail_calls[k]))
    /\ cs_http.entities = Len(detail_calls)
    /\ (cpc = "returned" /\ n > 0) =>
          /\ Len(detail_calls) = (n + 99) \div 100
          /\ SumLen(detail_calls) = n

C5_Witness ==
    /\ cpc = "returned"
    /\ Len(ioc_ids) = 250
    /\ Len(detail_calls) = 3
    /\ Len(detail_calls[1]) = 100
    /\ Len(detail_calls[2]) = 100
    /\ Len(detail_calls[3]) = 50

\* C6: when the query call succeeded with a body whose resources list is
\* empty or missing, pull has returned an empty list, has raised nothing and
\* has made no entities call.
QueryGaveNoIds ==
    /\ query_reply.kind = "http"
    /\ query_reply.status \in {200, 201}
    /\ query_reply.fmt = "dict"
    /\ query_reply.tag = "absent" \/ (query_reply.tag = "list" /\ query_reply.n = 0)
C6_EmptyIdListReturnsEmpty ==
    QueryGaveNoIds =>
        /\ cpc = "returned"
        /\ cs_result = Returned(<<>>)
        /\ cs_http.entities = 0
        /\ detail_calls = <<>>

C6_Witness ==
    /\ QueryGaveNoIds
    /\ query_reply.tag = "absent"
    /\ cs_result.kind = "returned"
    /\ cs_result.value = <<>>
    /\ cs_http = [token |-> 1, query |-> 1, entities |-> 0]

\* the fixed lookup of the data model
KindTable ==
    [t \in KnownTypes |->
        CASE t = "sha256" -> "SHA256"
          [] t = "md5" -> "MD5"
          [] OTHER -> "URL"]
FromLookup(ind) ==
    /\ NonEmptyStr(ind.value)
    /\ \E item \in CsRawItems :
          /\ item.shape = "dict"
          /\ item.type \in KnownTypes
          /\ item.value = ind.value
          /\ ind.type = KindTable[item.type]

\* C7 (as claimed): every indicator has a non-empty value and a kind from the
\* lookup, and the number of indicators is the number of raw records minus
\* one per record with a type outside the lookup or an empty value.
C7_CountMinusUnresolved ==
    /\ \A i \in 1..Len(indicators) : FromLookup(indicators[i])
    /\ Len(indicators) = raw_seen - raw_unresolved

\* C7 (amended): every indicator has a non-empty value and a kind from the
\* lookup; the number of indicators is the number of raw records minus one per
\* record with a type outside the lookup or an empty value and minus one per
\* record whose normalization raised (logged and skipped); the list returned
\* is that list.
C7_CountMinusDropped ==
    /\ \A i \in 1..Len(indicators) : FromLookup(indicators[i])
    /\ Len(indicators) = raw_seen - raw_unresolved - raw_failed
    /\ cs_result.kind = "returned" => cs_result.value = indicators
    /\ raw_failed > 0 => "ERROR pull: error parsing indicator" \in cs_log

C7_Witness ==
    /\ cs_result.kind = "returned"
    /\ raw_seen = 6
    /\ raw_unresolved = 2
    /\ raw_failed = 1
    /\ Len(cs_result.value) = 3
    /\ {cs_result.value[i].type : i \in 1..3} = {"SHA256", "URL"}

(***************************************************************************)
(* Specification of validate (both plugins)                                *)
(***************************************************************************)
InitValidate == IdleFS /\ IdleCS /\ InitVal

NextVal ==
    \/ (\E resp \in CsTokenResponses : CsValidate(resp)) /\ UNCHANGED <<fsVars, csVars>>
    \/ FsValidate /\ UNCHANGED <<fsVars, csVars>>

SpecVal == InitValidate /\ [][NextVal]_vars

(***************************************************************************)
(* Properties of validate                                                  *)
(***************************************************************************)
\* a field that is absent, empty or made of whitespace only
Blank(field) ==
    \/ field.tag = "absent"
    \/ field.tag = "str" /\ \A i \in 1..Len(field.s) : field.s[i] = " "
RequiredBlank ==
    \/ Blank(config.base_url)
    \/ vplugin = "crowdstrike"
          /\ (Blank(config.client_id) \/ Blank(config.client_secret))
    \/ vplugin = "forescout" /\ Blank(config.api_token)

\* C10 (as claimed): whenever base_url or a required credential field is
\* absent, empty or whitespace-only, validate returns a failure with a
\* non-empty message and has issued no HTTP request.
C10_BlankFieldFailsBeforeAnyRequest ==
    (vpc = "done" /\ RequiredBlank /\ vresult.kind = "returned")
        => /\ ~vresult.success
           /\ vresult.message # ""
           /\ v_http = 0

\* the token endpoint answered the probe of validate with a 200 or 201
ProbeAnswered2xx == v_reply.kind = "http" /\ v_reply.status \in {200, 201}

\* C11 (as claimed): validate reports success only after a live request to
\* the provider that was answered 200/201; and when the token endpoint
\* answers with another status, validate returns a failure with a non-empty
\* message after that single request.
C11_SuccessOnlyAfterLiveProbe ==
    vpc = "done" =>
        /\ (vresult.kind = "returned" /\ vresult.success)
              => (v_http = 1 /\ ProbeAnswered2xx)
        /\ (v_reply.kind = "http" /\ v_reply.status \notin {200, 201})
              => /\ vresult.kind = "returned"
                 /\ ~vresult.success
                 /\ vresult.message # ""
                 /\ v_http = 1

\* C12 (as claimed): validate never lets an exception escape: whatever the
\* configuration (fields absent, null, blank or valid) and whatever the
\* provider answers, it ends by returning a result with success and message.
C12_ValidateNeverRaises ==
    vpc = "done" => (vresult.kind = "returned" /\ vresult.message # "")

(***************************************************************************)
(* Further properties of the Crowdstrike pull                              *)
(***************************************************************************)
\* C13 (as claimed): when the token request has been made and pull holds no
\* access token (the answer was not a 200/201, or its body had no
\* access_token), pull has failed and no request has gone to the query or
\* the entities endpoint.
C13_NoTokenNoPull ==
    (cs_http.token = 1 /\ token = None)
        => /\ cpc = "raised"
           /\ cs_http.query = 0
           /\ cs_http.entities = 0

\* C18 (as claimed): a 429 answer to a request of api_helper (query or
\* entities endpoint) does not fail the pull on that first 429.
C18_RateLimitIsRetried ==
    (cs_http.query >= 1 /\ cs_status = 429) => cs_result.kind # "raised"

(***************************************************************************)
(* Specification of pull, either plugin: one pull of one of the two        *)
(* plugins is run                                                          *)
(***************************************************************************)
InitPull ==
    \/ InitFS /\ IdleCS /\ IdleVal
    \/ ParkedFS /\ InitCS /\ IdleVal

NextPull == Next \/ NextCS

SpecPull == InitPull /\ [][NextPull]_vars

(***************************************************************************)
(* Properties of pull and api_helper, both plugins                         *)
(***************************************************************************)
\* a status that is neither a success (200/201) nor 429; 0 and -1 are not
\* statuses (no response, no request)
HardError(status) == status \notin {-1, 0, 200, 201, 429}

\* C14: a response with a status that is neither 200/201 nor 429 ends the
\* api_helper call with an exception. Forescout: it is the last request of
\* the call (every request before it was a 429, none follows it), the call
\* returns no value, and the only sleeps are those after the 429s before
\* it. Crowdstrike: the call raises after its single request (the query
\* endpoint has been asked once, the entities endpoint once per batch
\* started).
C14_FailFastOnHardError ==
    /\ \A i \in 1..Len(statuses) :
          HardError(statuses[i])
             => /\ i = Len(statuses)
                /\ All429(SubSeq(statuses, 1, i - 1))
                /\ fpc = "raised"
                /\ fs_error = "HTTPError"
                /\ ~ReturnedValue
                /\ Len(sleeps) = i - 1
    /\ (cs_http.query >= 1 /\ HardError(cs_status))
          => /\ cpc = "raised"
             /\ cs_result = Raised("Unexpected Error")
             /\ cs_http.query = 1
             /\ cs_http.entities = Len(detail_calls)
             /\ cs_http.entities \in {0, (batch_start \div batch_size) + 1}

\* a 500 after one 429: one sleep, two requests, the call has raised
C14_Witness ==
    /\ statuses = <<429, 500>>
    /\ sleeps = <<Backoff(0)>>
    /\ fpc = "raised"
    /\ page_number = 1

\* Forescout pull hands over page by page: before the request for a page is
\* first sent, one tuple has been yielded for every earlier page; the tuple
\* of a page is yielded before any request for the next page; and the tuple
\* holds records of the current page only.
FsStreams ==
    /\ yields <= page_requests /\ page_requests <= yields + 1
    /\ (fpc = "request" /\ retry = 0)
          => (yields = page_number /\ page_requests = page_number)
    /\ fpc = "yielded"
          => /\ yields = page_number + 1
             /\ page_requests = page_number + 1
             /\ batch.count <= Len(results)

\* number of iterations of the batch loop over n ids
BatchCount(n) == (n + batch_size - 1) \div batch_size

FsRequestFailed ==
    /\ statuses # <<>>
    /\ LET last == statuses[Len(statuses)] IN
       \/ last = 0
       \/ HardError(last)
       \/ last = 429 /\ Len(statuses) = MAX_RETRIES

\* the last request of the Crowdstrike pull failed: no response, or a
\* status other than 200/201
CsRequestFailed == cs_status # -1 /\ ~IsSuccess(cs_status)

\* C16: after a failed HTTP request pull has raised and logged, and it takes
\* no further step (no request, no yield, no normal end). Forescout: no
\* tuple is yielded for the page that failed. Crowdstrike: the outcome is
\* the exception and no list of indicators, whatever earlier batches gave.
C16_FailedRequestRaises ==
    /\ [](FsRequestFailed
            => /\ fpc = "raised"
               /\ fs_error \in {"ConnectionError", "HTTPError", "HTTPError 429"}
               /\ "ERROR api_helper: request exception" \in fs_log
               /\ "ERROR pull: API error fetching assets" \in fs_log
               /\ yields = page_number)
    /\ [](CsRequestFailed
            => /\ cpc = "raised"
               /\ cs_result.kind = "raised"
               /\ cs_result.value = <<>>
               /\ "ERROR pull: error pulling indicators" \in cs_log)
    /\ [][FsRequestFailed => UNCHANGED fsVars]_vars
    /\ [][CsRequestFailed => UNCHANGED csVars]_vars

\* the entities request of the third batch is answered 500 when indicators
\* of the earlier batches are already in the list: pull raises
C16_Witness ==
    /\ cs_status = 500
    /\ cs_http.entities = 3
    /\ Len(indicators) > MaxRes
    /\ cs_result = Raised("Unexpected Error")

(***************************************************************************)
(* Further properties of the Forescout pull                                *)
(***************************************************************************)
\* C17: of the tuples one pull yields, the first and only the first has
\* is_first_page true, and the count of every tuple is the length of its
\* list of assets.
C17_BatchMetadata ==
    fpc = "yielded"
        => /\ batch.is_first_page = (yields = 1)
           /\ batch.count = Len(batch.assets)

\* the second tuple of a pull, carrying one asset
C17_Witness ==
    /\ fpc = "yielded"
    /\ yields = 2
    /\ ~batch.is_first_page
    /\ batch.count = 1
    /\ Len(batch.assets) = 1

\* C19: every page request carries the window computed once at the start of
\* the pull (to_utc_millis is the start time, from_utc_millis is 60 minutes
\* before it) and the fixed list of selected fields, however much time has
\* passed since; its page_number is the number of page requests made before
\* it, so the k-th carries k - 1.
C19_PagePayload ==
    request # NoRequest
        => /\ request.page_number = page_requests - 1
           /\ request.to_utc_millis = TimeBase
           /\ request.to_utc_millis - request.from_utc_millis = 60 * 60 * 1000
           /\ request.selected_fields = REM_ASSET_FIELDS
           /\ current_time_ms = TimeBase

\* the third page request, sent when the clock has moved on twice
C19_Witness ==
    /\ request.page_number = 2
    /\ page_requests = 3
    /\ now = 2
    /\ request.to_utc_millis = TimeBase
    /\ request.from_utc_millis = TimeBase - 3600000

\* C20: when the last response was a 200/201 whose body is not JSON,
\* api_helper has returned the response object, and pull has ended without
\* an exception: the error is logged, the page has no results, no tuple is
\* yielded for it, and no request follows.
C20_NonJsonBodyEndsPull ==
    /\ [](( /\ statuses # <<>>
            /\ IsSuccess(statuses[Len(statuses)])
            /\ body_fmt = "nonjson" )
           => /\ ret = "response"
              /\ fpc = "done"
              /\ fs_error = "none"
              /\ "ERROR pull: unexpected API response format" \in fs_log
              /\ results = <<>>
              /\ batch = NoBatch
              /\ yields = page_number)
    /\ [][ret = "response" => UNCHANGED <<page_requests, request, statuses,
                                          yields, fpc>>]_vars

\* the second page is answered 201 with a body that is not JSON, after a 429
C20_Witness ==
    /\ statuses = <<429, 201>>
    /\ body_fmt = "nonjson"
    /\ ret = "response"
    /\ fpc = "done"
    /\ page_number = 1
    /\ yields = 1

\* a raw record the normalizer passes over: a JSON object whose first ip
\* address and first mac address are both missing or empty
FirstIsBlank(field) == field.tag # "list" \/ field.v = <<>> \/ field.v[1] = ""
Dropped(item) ==
    /\ item.shape = "dict"
    /\ FirstIsBlank(item.ip_addresses)
    /\ FirstIsBlank(item.mac_addresses)
AllDropped(rs) == rs # <<>> /\ \A i \in 1..Len(rs) : Dropped(rs[i])

\* C21: pagination follows the raw count. A page whose raw results are not
\* empty but are all passed over by the normalizer is yielded as an empty
\* batch with count 0, and from there pull goes on to request the next page
\* number (unless the ceiling ends it); a tuple is yielded only for a page
\* with raw results; and pull ends normally only on a page without raw
\* results or at the ceiling.
C21_RawCountDrivesPaging ==
    /\ [](AllDropped(results)
            => /\ fpc = "yielded"
               /\ batch.assets = <<>>
               /\ batch.count = 0
               /\ yields = page_number + 1)
    /\ [](fpc = "yielded" => results # <<>>)
    /\ [](fpc = "done"
            => \/ ret # "none" /\ results = <<>>
               \/ /\ page_number > PageLimit
                  /\ "WARNING pull: reached maximum page limit" \in fs_log)
    /\ [][(AllDropped(results) /\ page_number < PageLimit)
            => /\ fpc' = "request"
               /\ page_number' = page_number + 1
               /\ fs_error' = "none"]_vars

\* the second page holds one record without any address: an empty batch is
\* yielded for it
C21_Witness ==
    /\ fpc = "yielded"
    /\ page_number = 1
    /\ yields = 2
    /\ Len(results) = 1
    /\ AllDropped(results)
    /\ batch.count = 0

\* C22: every tuple pull yields has is_last_page false and total_count 0;
\* this includes the tuple after which pull ends at the ceiling, so the host
\* never holds a batch marked as the last page.
C22_NeverMarkedLast ==
    /\ fpc = "yielded" => (~batch.is_last_page /\ batch.total_count = 0)
    /\ ~batch.is_last_page

\* the tuple of page 1000, the last one before the ceiling ends the pull
C22_Witness ==
    /\ fpc = "yielded"
    /\ page_number = PageLimit
    /\ yields = PageLimit + 1
    /\ batch.count = 1
    /\ ~batch.is_last_page
    /\ batch.total_count = 0
====
